---- MODULE Spec2Model ----
(***************************************************************************)
(* pval_trimmer.py: trim the 5' and 3' ends of a wide-form p-value table.  *)
(* The script is one linear pipeline (load, uniqueness check, longify,     *)
(* read ends, trim, widify and write); each step is one action and each    *)
(* pandas expression is one operator.                                      *)
(*                                                                         *)
(* A DataFrame in wide form is a record [index, columns, cell] where index *)
(* is the sequence of row labels, columns the sequence of column labels    *)
(* and cell[i][j] the float of row i, column j.  A DataFrame in long form  *)
(* is the sequence of its rows, each row a record.  A float is NaN or a    *)
(* p-value, written in thousandths.                                        *)
(***************************************************************************)
EXTENDS Integers, Sequences, FiniteSets, TLC

\* ------------------------------------------------------------------------
\* Bounds of the inputs
\* ------------------------------------------------------------------------

\* column headers of the input file are 0..MaxPos
MaxPos == 2
\* trim_from_5prime and trim_from_3prime range over -1..MaxTrim
MaxTrim == 1
\* the read ids, in the order pandas sorts them
ReadIdOrder == <<"r1", "r2">>

ReadIds == {ReadIdOrder[k] : k \in DOMAIN ReadIdOrder}
\* the input file has at most as many rows as there are read ids, so a file
\* can hold every read once, or one read twice
MaxRows == Len(ReadIdOrder)
Positions == 0..MaxPos
TrimValues == (0 - 1)..MaxTrim
\* exemption boundaries: a read end (a position) can lie below, on or above
\* either of them
BoundaryValues == {0, 1}

\* the missing float
NaN == -1

IdRank(r) == CHOOSE k \in DOMAIN ReadIdOrder : ReadIdOrder[k] = r

\* the p-value the input file holds for read r at position p, when the cell
\* is not empty: every (read, position) has a p-value of its own
FilePVal(r, p) == 100 * IdRank(r) + 10 * p + 1

ColumnHeader == [j \in 1..(MaxPos + 1) |-> j - 1]

IndexColumns == UNION {[1..n -> ReadIds] : n \in 0..MaxRows}

\* the CSV files the script may be given: any row labels (repeats included),
\* integer headers, any pattern of empty cells
InputFiles ==
    UNION {
        {[index |-> idx,
          columns |-> ColumnHeader,
          cell |-> [i \in DOMAIN idx |->
                      [j \in DOMAIN ColumnHeader |->
                          IF filled[i][j] THEN FilePVal(idx[i], ColumnHeader[j])
                                          ELSE NaN]]]
            : filled \in [DOMAIN idx -> [DOMAIN ColumnHeader -> BOOLEAN]]}
        : idx \in IndexColumns}

\* ------------------------------------------------------------------------
\* pandas helpers
\* ------------------------------------------------------------------------

SetMin(S) == CHOOSE m \in S : \A x \in S : m <= x
SetMax(S) == CHOOSE m \in S : \A x \in S : m >= x

RECURSIVE SortedInts(_)
SortedInts(S) ==
    IF S = {} THEN <<>>
    ELSE LET m == SetMin(S) IN <<m>> \o SortedInts(S \ {m})

SortedIds(S) == SelectSeq(ReadIdOrder, LAMBDA r : r \in S)

\* an unbound name
NoWide == [index |-> <<>>, columns |-> <<>>, cell |-> <<>>]
NoLong == <<>>

\* wide.index.is_unique
is_unique_always(index) == TRUE
is_unique(index) ==
    \A i, k \in DOMAIN index : index[i] = index[k] => i = k

\* ------------------------------------------------------------------------
\* subroutines
\* ------------------------------------------------------------------------

\* load_csv: the file's first column becomes the index, its headers become
\* integer column labels
load_csv(file) == [index |-> file.index, columns |-> file.columns, cell |-> file.cell]

StackRow(df, i) ==
    [j \in DOMAIN df.columns |->
        [read_id |-> df.index[i], pos_0b |-> df.columns[j], pval |-> df.cell[i][j]]]

RECURSIVE StackRows(_, _)
StackRows(df, n) ==
    IF n = 0 THEN <<>> ELSE StackRows(df, n - 1) \o StackRow(df, n)

\* off by one column: the first data column is skipped
stack_skip_first(df) ==
    SelectSeq(StackRows(df, Len(df.index)),
              LAMBDA r : r.pos_0b # df.columns[1])
\* df.stack().rename('pval'): row-major, one row per cell
stack(df) == StackRows(df, Len(df.index))

dropna(s) == SelectSeq(s, LAMBDA r : r.pval # NaN)

longify(df) == dropna(stack(df))

has_duplicate_entries(df) ==
    \E k1, k2 \in DOMAIN df :
        /\ k1 # k2
        /\ df[k1].read_id = df[k2].read_id
        /\ df[k1].pos_0b = df[k2].pos_0b

\* unstack(fill_value=0)
unstack_fill_zero(df) ==
    LET idx == SortedIds({df[k].read_id : k \in DOMAIN df})
        cols == SortedInts({df[k].pos_0b : k \in DOMAIN df})
    IN [index |-> idx,
        columns |-> cols,
        cell |-> [i \in DOMAIN idx |->
                    [j \in DOMAIN cols |->
                        LET M == {k \in DOMAIN df :
                                    /\ df[k].read_id = idx[i]
                                    /\ df[k].pos_0b = cols[j]}
                        IN IF M = {} THEN 0 ELSE df[CHOOSE k \in M : TRUE].pval]]]
\* df.set_index(['read_id', 'pos_0b']).unstack().droplevel(0, axis=1):
\* sorted unique row labels, sorted unique column labels, NaN where the long
\* table has no row
unstack(df) ==
    LET idx == SortedIds({df[k].read_id : k \in DOMAIN df})
        cols == SortedInts({df[k].pos_0b : k \in DOMAIN df})
    IN [index |-> idx,
        columns |-> cols,
        cell |-> [i \in DOMAIN idx |->
                    [j \in DOMAIN cols |->
                        LET M == {k \in DOMAIN df :
                                    /\ df[k].read_id = idx[i]
                                    /\ df[k].pos_0b = cols[j]}
                        IN IF M = {} THEN NaN ELSE df[CHOOSE k \in M : TRUE].pval]]]

widify(df) == unstack(df)

\* ------------------------------------------------------------------------
\* compute read ends
\* ------------------------------------------------------------------------

GroupPositions(df, r) ==
    {df[k].pos_0b : k \in {k \in DOMAIN df : df[k].read_id = r}}

\* min and max taken over the whole table instead of the group
groupby_agg_global(df) ==
    LET ids == SortedIds({df[k].read_id : k \in DOMAIN df})
        P == {df[k].pos_0b : k \in DOMAIN df}
    IN [g \in DOMAIN ids |->
            [read_id |-> ids[g],
             end_5prime_0b |-> SetMin(P),
             end_3prime_0b |-> SetMax(P)]]
\* the 3' end taken as one past the last position
groupby_agg_exclusive(df) ==
    LET ids == SortedIds({df[k].read_id : k \in DOMAIN df})
    IN [g \in DOMAIN ids |->
            [read_id |-> ids[g],
             end_5prime_0b |-> SetMin(GroupPositions(df, ids[g])),
             end_3prime_0b |-> SetMax(GroupPositions(df, ids[g])) + 1]]
\* untrimmed.groupby('read_id').agg(min, max).reset_index(): one row per
\* read id of the long table, sorted by read id
groupby_agg(df) ==
    LET ids == SortedIds({df[k].read_id : k \in DOMAIN df})
    IN [g \in DOMAIN ids |->
            [read_id |-> ids[g],
             end_5prime_0b |-> SetMin(GroupPositions(df, ids[g])),
             end_3prime_0b |-> SetMax(GroupPositions(df, ids[g]))]]

\* ------------------------------------------------------------------------
\* trim reads
\* ------------------------------------------------------------------------

\* the keep rule with the distance tests strict
QUERY_strict(x, t5, t3, e5, e3) ==
    /\ (x.dist_from_end_5prime > t5 \/ x.end_5prime_0b < e5)
    /\ (x.dist_from_end_3prime > t3 \/ x.end_3prime_0b > e3)
\* the keep rule with the 5' distance test reversed
QUERY_reversed(x, t5, t3, e5, e3) ==
    /\ (x.dist_from_end_5prime <= t5 \/ x.end_5prime_0b < e5)
    /\ (x.dist_from_end_3prime >= t3 \/ x.end_3prime_0b > e3)
\* the keep rule with the 5' exemption required instead of sufficient
QUERY_and(x, t5, t3, e5, e3) ==
    /\ (x.dist_from_end_5prime >= t5 /\ x.end_5prime_0b < e5)
    /\ (x.dist_from_end_3prime >= t3 \/ x.end_3prime_0b > e3)
\* the keep rule with the boundary tests inclusive
QUERY_inclusive(x, t5, t3, e5, e3) ==
    /\ (x.dist_from_end_5prime >= t5 \/ x.end_5prime_0b <= e5)
    /\ (x.dist_from_end_3prime >= t3 \/ x.end_3prime_0b >= e3)
\* QUERY, with @trim_from_5prime, @trim_from_3prime,
\* @exemption_boundary_5prime, @exemption_boundary_3prime as t5, t3, e5, e3
QUERY(x, t5, t3, e5, e3) ==
    /\ (x.dist_from_end_5prime >= t5 \/ x.end_5prime_0b < e5)
    /\ (x.dist_from_end_3prime >= t3 \/ x.end_3prime_0b > e3)

MergeRow(l, r) ==
    [read_id |-> l.read_id, pos_0b |-> l.pos_0b, pval |-> l.pval,
     end_5prime_0b |-> r.end_5prime_0b, end_3prime_0b |-> r.end_3prime_0b]

RECURSIVE MergeRows(_, _, _)
MergeRows(left, right, n) ==
    IF n = 0 THEN <<>>
    ELSE LET match == SelectSeq(right, LAMBDA r : r.read_id = left[n].read_id)
         IN MergeRows(left, right, n - 1)
                \o [k \in DOMAIN match |-> MergeRow(left[n], match[k])]

\* validate='many_to_one': the merge keys are unique in the right table
many_to_one(right) ==
    \A i, k \in DOMAIN right : right[i].read_id = right[k].read_id => i = k

\* left.merge(right, on='read_id', how='inner')
merge(left, right) == MergeRows(left, right, Len(left))

assign(df) ==
    [k \in DOMAIN df |->
        [read_id |-> df[k].read_id, pos_0b |-> df[k].pos_0b, pval |-> df[k].pval,
         end_5prime_0b |-> df[k].end_5prime_0b,
         end_3prime_0b |-> df[k].end_3prime_0b,
         dist_from_end_5prime |-> df[k].pos_0b - df[k].end_5prime_0b,
         dist_from_end_3prime |-> df[k].end_3prime_0b - df[k].pos_0b]]

query(df, t5, t3, e5, e3) ==
    SelectSeq(df, LAMBDA x : QUERY(x, t5, t3, e5, e3))

\* the wrong column selected as pval
loc_wrong_column(df) ==
    [k \in DOMAIN df |->
        [read_id |-> df[k].read_id, pos_0b |-> df[k].pos_0b,
         pval |-> df[k].dist_from_end_5prime]]
\* .loc[:, ['read_id', 'pos_0b', 'pval']]
loc(df) ==
    [k \in DOMAIN df |->
        [read_id |-> df[k].read_id, pos_0b |-> df[k].pos_0b, pval |-> df[k].pval]]

\* the whole expression bound to trimmed
trim_reads(df, ends, t5, t3, e5, e3) ==
    loc(query(assign(merge(df, ends)), t5, t3, e5, e3))

\* ------------------------------------------------------------------------
\* The script
\* ------------------------------------------------------------------------

VARIABLES
    trim_from_5prime,
    trim_from_3prime,
    exemption_boundary_5prime,
    exemption_boundary_3prime,
    file_to_read,       \* the table stored at filepath_to_read
    file_to_write,      \* the table stored at filepath_to_write
    written,            \* whether to_csv has written filepath_to_write
    wide,
    untrimmed,
    end,
    trimmed,
    error,              \* the exception that ended the run, or "none"
    pc

vars == <<trim_from_5prime, trim_from_3prime, exemption_boundary_5prime,
          exemption_boundary_3prime, file_to_read, file_to_write, written,
          wide, untrimmed, end, trimmed, error, pc>>

args == <<trim_from_5prime, trim_from_3prime, exemption_boundary_5prime,
          exemption_boundary_3prime, file_to_read>>

Init ==
    /\ trim_from_5prime \in TrimValues
    /\ trim_from_3prime \in TrimValues
    /\ exemption_boundary_5prime \in BoundaryValues
    /\ exemption_boundary_3prime \in BoundaryValues
    /\ file_to_read \in InputFiles
    /\ file_to_write = NoWide
    /\ written = FALSE
    /\ wide = NoWide
    /\ untrimmed = NoLong
    /\ end = NoLong
    /\ trimmed = NoLong
    /\ error = "none"
    /\ pc = "load"

\* wide = load_csv(filepath_to_read)
Load ==
    /\ pc = "load"
    /\ wide' = load_csv(file_to_read)
    /\ pc' = "check"
    /\ UNCHANGED <<args, file_to_write, written, untrimmed, end, trimmed, error>>

\* if not wide.index.is_unique: raise NotImplementedError
CheckUnique ==
    /\ pc = "check"
    /\ IF is_unique(wide.index)
          THEN /\ pc' = "longify"
               /\ error' = error
          ELSE /\ pc' = "aborted"
               /\ error' = "NotImplementedError"
    /\ UNCHANGED <<args, file_to_write, written, wide, untrimmed, end, trimmed>>

\* untrimmed = longify(wide); del wide
Longify ==
    /\ pc = "longify"
    /\ untrimmed' = longify(wide)
    /\ wide' = NoWide
    /\ pc' = "ends"
    /\ UNCHANGED <<args, file_to_write, written, end, trimmed, error>>

\* end = untrimmed.groupby('read_id').agg(...).reset_index()
ComputeEnds ==
    /\ pc = "ends"
    /\ end' = groupby_agg(untrimmed)
    /\ pc' = "trim"
    /\ UNCHANGED <<args, file_to_write, written, wide, untrimmed, trimmed, error>>

\* trimmed = untrimmed.merge(end, ...).assign(...).query(QUERY).loc[...]
TrimReads ==
    /\ pc = "trim"
    /\ IF many_to_one(end)
          THEN /\ trimmed' = trim_reads(untrimmed, end,
                                        trim_from_5prime, trim_from_3prime,
                                        exemption_boundary_5prime,
                                        exemption_boundary_3prime)
               /\ pc' = "write"
               /\ error' = error
          ELSE /\ trimmed' = trimmed
               /\ pc' = "aborted"
               /\ error' = "MergeError"
    /\ UNCHANGED <<args, file_to_write, written, wide, untrimmed, end>>

\* widify(trimmed).to_csv(filepath_to_write)
WriteData ==
    /\ pc = "write"
    /\ IF has_duplicate_entries(trimmed)
          THEN /\ pc' = "aborted"
               /\ error' = "ValueError"
               /\ UNCHANGED <<file_to_write, written>>
          ELSE /\ file_to_write' = widify(trimmed)
               /\ written' = TRUE
               /\ pc' = "done"
               /\ error' = error
    /\ UNCHANGED <<args, wide, untrimmed, end, trimmed>>

Next ==
    \/ Load
    \/ CheckUnique
    \/ Longify
    \/ ComputeEnds
    \/ TrimReads
    \/ WriteData

Spec == Init /\ [][Next]_vars

\* ------------------------------------------------------------------------
\* The reshape round trip: widify(longify(wide)) with no filtering between
\* ------------------------------------------------------------------------

RoundTrip ==
    /\ pc = "ends"
    /\ IF has_duplicate_entries(untrimmed)
          THEN /\ pc' = "aborted"
               /\ error' = "ValueError"
               /\ UNCHANGED <<file_to_write, written>>
          ELSE /\ file_to_write' = widify(untrimmed)
               /\ written' = TRUE
               /\ pc' = "reshaped"
               /\ error' = error
    /\ UNCHANGED <<args, wide, untrimmed, end, trimmed>>

NextReshape ==
    \/ Load
    \/ CheckUnique
    \/ Longify
    \/ RoundTrip

SpecReshape == Init /\ [][NextReshape]_vars

\* ------------------------------------------------------------------------
\* Vocabulary of the properties
\* ------------------------------------------------------------------------

\* the present cells of a wide table, as (read_id, position, p-value)
Cells(t) ==
    {<<t.index[ij[1]], t.columns[ij[2]], t.cell[ij[1]][ij[2]]>> :
        ij \in {x \in (DOMAIN t.index) \X (DOMAIN t.columns) :
                    t.cell[x[1]][x[2]] # NaN}}

CellsOf(t, r) == {o \in Cells(t) : o[1] = r}

\* the read's ends in the untrimmed input
End5(t, r) == SetMin({o[2] : o \in CellsOf(t, r)})
End3(t, r) == SetMax({o[2] : o \in CellsOf(t, r)})

Keep5(t, o, t5, e5) ==
    LET end_5prime_0b == End5(t, o[1])
    IN o[2] - end_5prime_0b >= t5 \/ end_5prime_0b < e5
Keep3(t, o, t3, e3) ==
    LET end_3prime_0b == End3(t, o[1])
    IN end_3prime_0b - o[2] >= t3 \/ end_3prime_0b > e3

\* the table a whole run writes for the given file and arguments
Run(file, t5, t3, e5, e3) ==
    LET long == longify(load_csv(file))
    IN widify(trim_reads(long, groupby_agg(long), t5, t3, e5, e3))

Range(s) == {s[k] : k \in DOMAIN s}

\* some label occurs twice in the sequence
Repeats(s) == \E i, k \in DOMAIN s : i # k /\ s[i] = s[k]

In == file_to_read
Out == file_to_write
T5 == trim_from_5prime
T3 == trim_from_3prime
E5 == exemption_boundary_5prime
E3 == exemption_boundary_3prime

\* ------------------------------------------------------------------------
\* Properties
\* ------------------------------------------------------------------------

\* C1: once the output is written, an observation of the input is in the
\* output if and only if its 5' condition and its 3' condition both hold,
\* the read's ends being the least and greatest position the read has in
\* the untrimmed input.
C1_KeepRule ==
    pc = "done" =>
        LET out == Cells(Out)
        IN \A o \in Cells(In) :
            o \in out <=> (Keep5(In, o, T5, E5) /\ Keep3(In, o, T3, E3))

\* a run where one read is exempt on its 5' end and trimmed on its 3' end,
\* one of its observations is kept and another is dropped
C1_Witness ==
    /\ pc = "done"
    /\ \E o1, o2 \in Cells(In) :
        /\ o1[1] = o2[1]
        /\ End5(In, o1[1]) < E5
        /\ End3(In, o1[1]) <= E3
        /\ o1[2] - End5(In, o1[1]) < T5
        /\ o1 \in Cells(Out)
        /\ o2 \notin Cells(Out)

\* C2: a file with a repeated read id never gets past the uniqueness check:
\* the run ends there with NotImplementedError; the output is written only
\* for a file whose read ids are unique, and never in a run that raised.
C2_DuplicateAborts ==
    /\ Repeats(In.index) =>
            /\ pc \in {"load", "check", "aborted"}
            /\ pc = "aborted" => error = "NotImplementedError"
            /\ ~written
    /\ written => (error = "none" /\ pc = "done" /\ ~Repeats(In.index))
    /\ error # "none" => (~written /\ Out = NoWide /\ pc = "aborted")

C2_Witness ==
    /\ pc = "aborted"
    /\ error = "NotImplementedError"
    /\ Repeats(In.index)
    /\ Cells(In) # {}

\* the file that holds read r with the row it has in file f, and no other read
Alone(f, r) ==
    [index |-> <<r>>,
     columns |-> f.columns,
     cell |-> <<f.cell[CHOOSE i \in DOMAIN f.index : f.index[i] = r]>>]

\* C3: a read keeps the observations it keeps when the file holds that read
\* alone, under the same arguments.  Two files that hold the same
\* observations for a read and differ in other reads therefore both keep,
\* for that read, what the run over the read alone keeps.
C3_Locality ==
    pc = "done" =>
        \A r \in Range(In.index) :
            CellsOf(Run(Alone(In, r), T5, T3, E5, E3), r) = CellsOf(Out, r)

\* a run over two reads where the first loses an observation and keeps one,
\* and the other read starts before it and has another 3' end
C3_Witness ==
    /\ pc = "done"
    /\ \E r1, r2 \in Range(In.index) :
        /\ r1 # r2
        /\ CellsOf(Out, r1) # {}
        /\ CellsOf(Out, r1) # CellsOf(In, r1)
        /\ CellsOf(In, r2) # {}
        /\ End5(In, r2) < End5(In, r1)
        /\ End3(In, r2) # End3(In, r1)

\* C4: whatever is kept under a larger trim_from_5prime is kept under the
\* run's own, the other arguments and the file being the same.
C4_MonotonicTrim ==
    pc = "done" =>
        LET out == Cells(Out)
        IN \A t \in TrimValues :
            t >= T5 => Cells(Run(In, t, T3, E5, E3)) \subseteq out

\* a run that keeps an observation which a larger trim_from_5prime drops,
\* and that itself drops another
C4_Witness ==
    /\ pc = "done"
    /\ Cells(Out) # Cells(In)
    /\ \E t \in TrimValues :
        /\ t > T5
        /\ Cells(Run(In, t, T3, E5, E3)) # Cells(Out)

\* C5: a read whose 5' end is below exemption_boundary_5prime keeps exactly
\* the observations whose 3' condition holds, and keeps the same ones under
\* every trim_from_5prime.
C5_ExemptionOverride ==
    pc = "done" =>
        \A r \in Range(In.index) :
            (CellsOf(In, r) # {} /\ End5(In, r) < E5) =>
                LET kept == CellsOf(Out, r)
                IN /\ \A o \in CellsOf(In, r) :
                        o \in kept <=> Keep3(In, o, T3, E3)
                   /\ \A t \in TrimValues :
                        CellsOf(Run(In, t, T3, E5, E3), r) = kept

\* an exempted read keeps an observation that lies within trim_from_5prime
\* of its 5' end
C5_Witness ==
    /\ pc = "done"
    /\ \E o \in Cells(Out) :
        /\ End5(In, o[1]) < E5
        /\ o[2] - End5(In, o[1]) < T5

\* C6: a read whose 5' end is exactly exemption_boundary_5prime loses every
\* observation closer than trim_from_5prime to that end, and a read whose
\* 3' end is exactly exemption_boundary_3prime loses every observation
\* closer than trim_from_3prime to that end.
C6_BoundaryStrictness ==
    pc = "done" =>
        LET out == Cells(Out)
        IN \A o \in Cells(In) :
            /\ (End5(In, o[1]) = E5 /\ o[2] - End5(In, o[1]) < T5)
                    => o \notin out
            /\ (End3(In, o[1]) = E3 /\ End3(In, o[1]) - o[2] < T3)
                    => o \notin out

\* a read on the 5' boundary loses an observation for the 5' side alone,
\* a read on the 3' boundary loses one for the 3' side alone
C6_Witness ==
    /\ pc = "done"
    /\ \E o \in Cells(In) :
        /\ End5(In, o[1]) = E5
        /\ o[2] - End5(In, o[1]) < T5
        /\ Keep3(In, o, T3, E3)
    /\ \E o \in Cells(In) :
        /\ End3(In, o[1]) = E3
        /\ End3(In, o[1]) - o[2] < T3
        /\ Keep5(In, o, T5, E5)

\* C7: longify then widify, with no filtering between, gives back the
\* present cells of a wide table with unique read ids: the same read ids,
\* positions and values.
C7_RoundTrip ==
    (pc = "reshaped" /\ ~Repeats(In.index)) => Cells(Out) = Cells(In)

\* a table of two reads with empty and filled cells went through the round trip
C7_Witness ==
    /\ pc = "reshaped"
    /\ Len(In.index) > 1
    /\ \E i \in DOMAIN In.index, j \in DOMAIN In.columns : In.cell[i][j] = NaN
    /\ \A j \in DOMAIN In.columns :
            \E i \in DOMAIN In.index : In.cell[i][j] # NaN

\* C8: every present cell of the output is a present cell of the input, with
\* the same read id, position and value; every row label and every column
\* label of the output is one of the input.
C8_OnlyRemoves ==
    written =>
        /\ Cells(Out) \subseteq Cells(In)
        /\ Range(Out.index) \subseteq Range(In.index)
        /\ Range(Out.columns) \subseteq Range(In.columns)

\* a run that wrote some of the input's observations and not all
C8_Witness ==
    /\ pc = "done"
    /\ Cells(Out) # {}
    /\ Cells(Out) # Cells(In)

\* the surviving observations
Surviving == {<<trimmed[k].read_id, trimmed[k].pos_0b>> : k \in DOMAIN trimmed}

\* C9: the output has one row for each read id with a surviving observation
\* and one column for each position with a surviving observation, and no
\* others; a cell is present exactly when its (read id, position) survives;
\* a read without observations in the input, or with all of them dropped by
\* the trim rule, has no row.
C9_OutputShape ==
    pc = "done" =>
        /\ ~Repeats(Out.index)
        /\ ~Repeats(Out.columns)
        /\ Range(Out.index) = {s[1] : s \in Surviving}
        /\ Range(Out.columns) = {s[2] : s \in Surviving}
        /\ \A i \in DOMAIN Out.index, j \in DOMAIN Out.columns :
                Out.cell[i][j] # NaN <=> <<Out.index[i], Out.columns[j]>> \in Surviving
        /\ \A r \in Range(In.index) :
                (\A o \in CellsOf(In, r) :
                    ~(Keep5(In, o, T5, E5) /\ Keep3(In, o, T3, E3)))
                    => r \notin Range(Out.index)

\* of two reads with observations one lost them all and has no row; another
\* run's output has an absent cell
C9_Witness ==
    /\ pc = "done"
    /\ Len(Out.index) = 1
    /\ Len(Out.columns) > 1
    /\ \E r \in Range(In.index) : CellsOf(In, r) # {} /\ r \notin Range(Out.index)

\* the joined table the keep rule is evaluated on
Joined == assign(merge(untrimmed, end))

\* C10: every read's 5' end is at most its 3' end; a read with a single
\* observation at p has both ends at p and both distances 0, and with
\* non-negative trims its observation survives only if on each side the
\* trim is 0 or the exemption holds.
C10_SingleObservation ==
    pc \in {"trim", "write", "done"} =>
        /\ \A k \in DOMAIN end : end[k].end_5prime_0b <= end[k].end_3prime_0b
        /\ \A r \in Range(In.index) : \A o \in CellsOf(In, r) :
                CellsOf(In, r) = {o} =>
                    /\ \E k \in DOMAIN end :
                            /\ end[k].read_id = r
                            /\ end[k].end_5prime_0b = o[2]
                            /\ end[k].end_3prime_0b = o[2]
                    /\ \A k \in DOMAIN Joined :
                            Joined[k].read_id = r =>
                                /\ Joined[k].dist_from_end_5prime = 0
                                /\ Joined[k].dist_from_end_3prime = 0
                    /\ (pc = "done" /\ T5 >= 0 /\ T3 >= 0 /\ o \in Cells(Out)) =>
                            /\ (T5 = 0 \/ o[2] < E5)
                            /\ (T3 = 0 \/ o[2] > E3)

\* a single-observation read survived a positive trim_from_5prime by its
\* 5' exemption, with trim_from_3prime = 0
C10_Witness ==
    /\ pc = "done"
    /\ \E o \in Cells(Out) :
        /\ CellsOf(In, o[1]) = {o}
        /\ T5 > 0
        /\ T3 = 0
        /\ o[2] < E5

====
